---- MODULE Spec2Model ----
(***************************************************************************)
(* Model of the keyguard message codec (keyguard_messages.h / .cpp):       *)
(* the KeyguardMessage envelope, the four message variants, and the        *)
(* length-prefixed SizedBuffer codec.                                      *)
(*                                                                         *)
(* Bytes are digits of base Radix instead of base 256, so that a 4-byte    *)
(* word and an address of sizeof(size_t) bytes stay inside the integers    *)
(* of the model checker while every word, length and address keeps its     *)
(* number of bytes and wraps at its own width.                             *)
(***************************************************************************)
EXTENDS Integers, Sequences, FiniteSets, TLC

\* ---- bounds of the model ------------------------------------------------
Radix == 4
MaxLen == 2
MaxUserId == 1
MaxDeserialize == 2

\* ---- program constants --------------------------------------------------
KG_ERROR_OK == 0
KG_ERROR_INVALID == 1
sizeof_uint32_t == 4

Byte == 0 .. (Radix - 1)
\* unique_ptr<uint8_t>: empty (NULL), or owning one storage and its bytes.
NULL == <<>>
Owning(bytes) == <<bytes>>
StorageOf(buffer) == buffer[1]

\* The indeterminate value of a member no constructor has assigned.
Uninit == 0 - 1
NoVariant == "none"

Variants == {"VerifyRequest", "VerifyResponse", "EnrollRequest", "EnrollResponse"}
UserIds == 1 .. MaxUserId

RECURSIVE Pow(_, _)
Pow(b, n) == IF n = 0 THEN 1 ELSE b * Pow(b, n - 1)

\* sizeof(size_t) of the build: an ILP32 or an LP64 target.
SizeofSizeT == {4, 8}

\* Number of addresses of a build whose pointers have szt bytes.
AddressSpace(szt) == Pow(Radix, szt)

\* memcpy(dst, &value, n): the n bytes of an integer, least significant first.
ToBytes(value, n) == [i \in 1 .. n |-> (value \div Pow(Radix, i - 1)) % Radix]

\* memcpy(&value, src, n): the integer held by n bytes.
RECURSIVE FromBytes(_)
FromBytes(s) == IF s = <<>> THEN 0 ELSE s[1] + Radix * FromBytes(Tail(s))

\* A SizedBuffer: exclusively owned storage (NULL or its bytes) and a length.
SizedBuffer(buffer, length) == [buffer |-> buffer, length |-> length]

\* A SizedBuffer zeroed by memset_s(&field, 0, sizeof(field)).
ZeroedBuffer == SizedBuffer(NULL, 0)

\* tests' make_buffer(size): size bytes of srand(size)-seeded content.
make_buffer(size) ==
    SizedBuffer(Owning([i \in 1 .. size |-> 1 + ((size + i) % (Radix - 1))]), size)

\* The buffers callers move into constructors and setters: an empty one, or
\* one that make_buffer filled.
SrcBuffers == {ZeroedBuffer} \cup {make_buffer(n) : n \in 1 .. MaxLen}

\* tests' msgbuf: bytes that are not a message, parsed at every offset.
msgbuf ==
    <<1, 0, 0, 0, 0, 0, 0, 0, 0, 0, 0, 0, 1, 0, 0, 0, 0, 0, 0, 0, 1>>

\* ---- memory holding the bytes handed to Deserialize --------------------
\* The input occupies [payload, end); the bytes around it are not the
\* caller's and hold an arbitrary value.
PayloadBase(szt) == AddressSpace(szt) - 64

Memory(szt, bytes, junk) ==
    [payload |-> PayloadBase(szt), end |-> PayloadBase(szt) + Len(bytes),
     bytes |-> bytes, junk |-> junk]

MemAt(mem, addr) ==
    IF mem.payload <= addr /\ addr < mem.end THEN mem.bytes[addr - mem.payload + 1]
    ELSE mem.junk

ReadBytes(mem, addr, n, szt) ==
    [i \in 1 .. n |-> MemAt(mem, (addr + i - 1) % AddressSpace(szt))]

Addresses(addr, n, szt) == {(addr + i - 1) % AddressSpace(szt) : i \in 1 .. n}

InBounds(mem, addrs) == \A a \in addrs : mem.payload <= a /\ a < mem.end

\* *((uint32_t *) addr): the word at addr; a word that is not wholly inside
\* [payload, end) has an indeterminate value.
ReadWord(mem, addr, szt) ==
    IF InBounds(mem, Addresses(addr, sizeof_uint32_t, szt))
    THEN FromBytes(ReadBytes(mem, addr, sizeof_uint32_t, szt))
    ELSE Uninit

\* ---- SizedBuffer codec --------------------------------------------------
serialized_buffer_size(buf) == sizeof_uint32_t + buf.length

\* memcpy(dst, src, n) of a field's storage; a NULL source with n > 0 reads
\* bytes that are not the field's.
CopyOut(buffer, n, junk) ==
    [i \in 1 .. n |-> IF buffer # NULL /\ i <= Len(StorageOf(buffer))
                      THEN StorageOf(buffer)[i] ELSE junk]

\* The bytes append_to_buffer writes: sizeof(length) bytes, then the payload.
append_to_buffer(to_append, szt, junk) ==
    ToBytes(to_append.length, szt) \o CopyOut(to_append.buffer, to_append.length, junk)

\* read_from_buffer without the comparison of buffer_end with end: a length
\* that runs past the input is accepted.
read_from_buffer_noEndCheck(mem, buffer, end, target, szt) ==
    LET AS == AddressSpace(szt)
        afterLen == (buffer + szt) % AS
    IN  IF afterLen >= end
        THEN [error |-> KG_ERROR_INVALID, buffer |-> buffer, target |-> target, reads |-> {}]
        ELSE LET length == FromBytes(ReadBytes(mem, buffer, szt, szt))
                 buffer_end == (afterLen + length) % AS
             IN  IF buffer_end <= afterLen
                 THEN [error |-> KG_ERROR_INVALID, buffer |-> afterLen,
                       target |-> [target EXCEPT !.length = length],
                       reads |-> Addresses(buffer, szt, szt)]
                 ELSE [error |-> KG_ERROR_OK, buffer |-> buffer_end,
                       target |-> SizedBuffer(Owning(ReadBytes(mem, afterLen, length, szt)),
                                              length),
                       reads |-> Addresses(buffer, szt + length, szt)]

\* read_from_buffer without the comparison of buffer_end with *buffer: a
\* length that wraps the address is accepted when it lands before end.
read_from_buffer_noWrapCheck(mem, buffer, end, target, szt) ==
    LET AS == AddressSpace(szt)
        afterLen == (buffer + szt) % AS
    IN  IF afterLen >= end
        THEN [error |-> KG_ERROR_INVALID, buffer |-> buffer, target |-> target, reads |-> {}]
        ELSE LET length == FromBytes(ReadBytes(mem, buffer, szt, szt))
                 buffer_end == (afterLen + length) % AS
             IN  IF buffer_end > end
                 THEN [error |-> KG_ERROR_INVALID, buffer |-> afterLen,
                       target |-> [target EXCEPT !.length = length],
                       reads |-> Addresses(buffer, szt, szt)]
                 ELSE [error |-> KG_ERROR_OK, buffer |-> buffer_end,
                       target |-> SizedBuffer(Owning(ReadBytes(mem, afterLen, length, szt)),
                                              length),
                       reads |-> Addresses(buffer, szt + length, szt)]

\* read_from_buffer copying from the length word on instead of from the
\* byte after it.
read_from_buffer_copyLengthWord(mem, buffer, end, target, szt) ==
    LET AS == AddressSpace(szt)
        afterLen == (buffer + szt) % AS
    IN  IF afterLen >= end
        THEN [error |-> KG_ERROR_INVALID, buffer |-> buffer, target |-> target, reads |-> {}]
        ELSE LET length == FromBytes(ReadBytes(mem, buffer, szt, szt))
                 buffer_end == (afterLen + length) % AS
             IN  IF buffer_end > end \/ buffer_end <= afterLen
                 THEN [error |-> KG_ERROR_INVALID, buffer |-> afterLen,
                       target |-> [target EXCEPT !.length = length],
                       reads |-> Addresses(buffer, szt, szt)]
                 ELSE [error |-> KG_ERROR_OK, buffer |-> buffer_end,
                       target |-> SizedBuffer(Owning(ReadBytes(mem, buffer, length, szt)),
                                              length),
                       reads |-> Addresses(buffer, szt + length, szt)]

read_from_buffer(mem, buffer, end, target, szt) ==
    LET AS == AddressSpace(szt)
        afterLen == (buffer + szt) % AS
    IN  IF afterLen >= end
        THEN [error |-> KG_ERROR_INVALID, buffer |-> buffer, target |-> target, reads |-> {}]
        ELSE LET length == FromBytes(ReadBytes(mem, buffer, szt, szt))
                 buffer_end == (afterLen + length) % AS
             IN  IF buffer_end > end \/ buffer_end <= afterLen
                 THEN [error |-> KG_ERROR_INVALID, buffer |-> afterLen,
                       target |-> [target EXCEPT !.length = length],
                       reads |-> Addresses(buffer, szt, szt)]
                 ELSE [error |-> KG_ERROR_OK, buffer |-> buffer_end,
                       target |-> SizedBuffer(Owning(ReadBytes(mem, afterLen, length, szt)),
                                              length),
                       reads |-> Addresses(buffer, szt + length, szt)]


\* memset_s(s, c, n) over a storage: its first n bytes become c.
memset_s(s, c, n) == [i \in 1 .. Len(s) |-> IF i <= n THEN c ELSE s[i]]

\* The record of a storage handed back to the allocator: whose it was, its
\* size, whether every byte of it is zero at that moment, and whether its
\* bytes were changed on the way to the release.
Released(field, held, bytes) ==
    [field |-> field, size |-> Len(bytes),
     zeroed |-> \A i \in 1 .. Len(bytes) : bytes[i] = 0,
     changed |-> bytes # held]

\* buffer.reset() under "if (buffer)": the storage is released as it is.
ResetPlain(field, buf) ==
    IF buf.buffer # NULL
    THEN {Released(field, StorageOf(buf.buffer), StorageOf(buf.buffer))}
    ELSE {}

\* The release of a secret without the memset_s before it.
ResetWiped_noMemset(field, buf) ==
    IF buf.buffer # NULL
    THEN {Released(field, StorageOf(buf.buffer), StorageOf(buf.buffer))}
    ELSE {}

\* memset_s(buffer.get(), 0, length); buffer.reset() under "if (buffer)".
ResetWiped(field, buf) ==
    IF buf.buffer # NULL
    THEN {Released(field, StorageOf(buf.buffer),
                   memset_s(StorageOf(buf.buffer), 0, buf.length))}
    ELSE {}

Emptied(buf) == [buf EXCEPT !.buffer = NULL]

NoFields ==
    [password_handle_ |-> ZeroedBuffer, provided_password_ |-> ZeroedBuffer,
     verification_token_ |-> ZeroedBuffer, enrolled_password_handle_ |-> ZeroedBuffer]

\* The buffer fields each class declares, in declaration order.
FieldsOf(v) ==
    CASE v = "VerifyRequest" -> <<"password_handle_", "provided_password_">>
      [] v = "VerifyResponse" -> <<"verification_token_">>
      [] v = "EnrollRequest" -> <<"provided_password_">>
      [] v = "EnrollResponse" -> <<"enrolled_password_handle_">>
      [] OTHER -> <<>>

\* ---- VerifyRequest -------------------------------------------------------
VerifyRequest_nonErrorSerializedSize(F) ==
    serialized_buffer_size(F.password_handle_) + serialized_buffer_size(F.provided_password_)

VerifyRequest_nonErrorSerialize(F, szt, junk) ==
    append_to_buffer(F.password_handle_, szt, junk)
        \o append_to_buffer(F.provided_password_, szt, junk)

\* VerifyRequest::nonErrorDeserialize reading provided_password_ before
\* password_handle_.
VerifyRequest_nonErrorDeserialize_swapped(mem, payload, end, F, szt) ==
    LET rel == ResetPlain("password_handle_", F.password_handle_)
                   \cup ResetWiped("provided_password_", F.provided_password_)
        r1 == read_from_buffer(mem, payload, end, Emptied(F.provided_password_), szt)
        r2 == read_from_buffer(mem, r1.buffer, end, Emptied(F.password_handle_), szt)
    IN  IF r1.error # KG_ERROR_OK
        THEN [error |-> r1.error,
              fields |-> [F EXCEPT !.provided_password_ = r1.target,
                                   !.password_handle_ = Emptied(F.password_handle_)],
              released |-> rel, reads |-> r1.reads]
        ELSE [error |-> r2.error,
              fields |-> [F EXCEPT !.provided_password_ = r1.target,
                                   !.password_handle_ = r2.target],
              released |-> rel, reads |-> r1.reads \cup r2.reads]

VerifyRequest_nonErrorDeserialize(mem, payload, end, F, szt) ==
    LET rel == ResetPlain("password_handle_", F.password_handle_)
                   \cup ResetWiped("provided_password_", F.provided_password_)
        r1 == read_from_buffer(mem, payload, end, Emptied(F.password_handle_), szt)
        r2 == read_from_buffer(mem, r1.buffer, end, Emptied(F.provided_password_), szt)
    IN  IF r1.error # KG_ERROR_OK
        THEN [error |-> r1.error,
              fields |-> [F EXCEPT !.password_handle_ = r1.target,
                                   !.provided_password_ = Emptied(F.provided_password_)],
              released |-> rel, reads |-> r1.reads]
        ELSE [error |-> r2.error,
              fields |-> [F EXCEPT !.password_handle_ = r1.target,
                                   !.provided_password_ = r2.target],
              released |-> rel, reads |-> r1.reads \cup r2.reads]

VerifyRequest_dtor(F) ==
    ResetPlain("password_handle_", F.password_handle_)
        \cup ResetWiped("provided_password_", F.provided_password_)

\* ---- VerifyResponse ------------------------------------------------------
VerifyResponse_nonErrorSerializedSize(F) == serialized_buffer_size(F.verification_token_)

VerifyResponse_nonErrorSerialize(F, szt, junk) ==
    append_to_buffer(F.verification_token_, szt, junk)

VerifyResponse_nonErrorDeserialize(mem, payload, end, F, szt) ==
    LET rel == ResetPlain("verification_token_", F.verification_token_)
        r == read_from_buffer(mem, payload, end, Emptied(F.verification_token_), szt)
    IN  [error |-> r.error, fields |-> [F EXCEPT !.verification_token_ = r.target],
         released |-> rel, reads |-> r.reads]

\* The unique_ptr member releases whatever storage the field still owns.
VerifyResponse_dtor(F) == ResetPlain("verification_token_", F.verification_token_)

\* ---- EnrollRequest -------------------------------------------------------
EnrollRequest_nonErrorSerializedSize(F) == serialized_buffer_size(F.provided_password_)

EnrollRequest_nonErrorSerialize(F, szt, junk) ==
    append_to_buffer(F.provided_password_, szt, junk)

EnrollRequest_nonErrorDeserialize(mem, payload, end, F, szt) ==
    LET rel == ResetWiped("provided_password_", F.provided_password_)
        r == read_from_buffer(mem, payload, end, Emptied(F.provided_password_), szt)
    IN  [error |-> r.error, fields |-> [F EXCEPT !.provided_password_ = r.target],
         released |-> rel, reads |-> r.reads]

EnrollRequest_dtor(F) == ResetWiped("provided_password_", F.provided_password_)

\* ---- EnrollResponse ------------------------------------------------------
EnrollResponse_nonErrorSerializedSize(F) ==
    serialized_buffer_size(F.enrolled_password_handle_)

EnrollResponse_nonErrorSerialize(F, szt, junk) ==
    append_to_buffer(F.enrolled_password_handle_, szt, junk)

EnrollResponse_nonErrorDeserialize(mem, payload, end, F, szt) ==
    LET rel == ResetPlain("enrolled_password_handle_", F.enrolled_password_handle_)
        r == read_from_buffer(mem, payload, end, Emptied(F.enrolled_password_handle_), szt)
    IN  [error |-> r.error, fields |-> [F EXCEPT !.enrolled_password_handle_ = r.target],
         released |-> rel, reads |-> r.reads]

EnrollResponse_dtor(F) ==
    ResetPlain("enrolled_password_handle_", F.enrolled_password_handle_)

\* ---- virtual dispatch ----------------------------------------------------
nonErrorSerializedSize(v, F) ==
    CASE v = "VerifyRequest" -> VerifyRequest_nonErrorSerializedSize(F)
      [] v = "VerifyResponse" -> VerifyResponse_nonErrorSerializedSize(F)
      [] v = "EnrollRequest" -> EnrollRequest_nonErrorSerializedSize(F)
      [] v = "EnrollResponse" -> EnrollResponse_nonErrorSerializedSize(F)

nonErrorSerialize(v, F, szt, junk) ==
    CASE v = "VerifyRequest" -> VerifyRequest_nonErrorSerialize(F, szt, junk)
      [] v = "VerifyResponse" -> VerifyResponse_nonErrorSerialize(F, szt, junk)
      [] v = "EnrollRequest" -> EnrollRequest_nonErrorSerialize(F, szt, junk)
      [] v = "EnrollResponse" -> EnrollResponse_nonErrorSerialize(F, szt, junk)

nonErrorDeserialize(v, mem, payload, end, F, szt) ==
    CASE v = "VerifyRequest" -> VerifyRequest_nonErrorDeserialize(mem, payload, end, F, szt)
      [] v = "VerifyResponse" -> VerifyResponse_nonErrorDeserialize(mem, payload, end, F, szt)
      [] v = "EnrollRequest" -> EnrollRequest_nonErrorDeserialize(mem, payload, end, F, szt)
      [] v = "EnrollResponse" -> EnrollResponse_nonErrorDeserialize(mem, payload, end, F, szt)

Destructor(v, F) ==
    CASE v = "VerifyRequest" -> VerifyRequest_dtor(F)
      [] v = "VerifyResponse" -> VerifyResponse_dtor(F)
      [] v = "EnrollRequest" -> EnrollRequest_dtor(F)
      [] v = "EnrollResponse" -> EnrollResponse_dtor(F)

\* ---- KeyguardMessage -----------------------------------------------------
\* GetSerializedSize without the branch on error_.
GetSerializedSize_noErrorCase(v, err, F) ==
    2 * sizeof_uint32_t + nonErrorSerializedSize(v, F)

GetSerializedSize(v, err, F) ==
    IF err = KG_ERROR_OK THEN 2 * sizeof_uint32_t + nonErrorSerializedSize(v, F)
    ELSE sizeof_uint32_t

\* Serialize: the size of the array it allocates and the bytes it writes
\* from the start of that array.  uid is the value read from user_id_.
Serialize(v, err, uid, F, szt, junk) ==
    IF err # KG_ERROR_OK
    THEN [size |-> sizeof_uint32_t, written |-> ToBytes(err, sizeof_uint32_t)]
    ELSE [size |-> 2 * sizeof_uint32_t + nonErrorSerializedSize(v, F),
          written |-> ToBytes(err, sizeof_uint32_t) \o ToBytes(uid, sizeof_uint32_t)
                          \o nonErrorSerialize(v, F, szt, junk)]

\* Deserialize without the test of the decoded error code: the user id and
\* the payload are decoded whatever the first word says.
Deserialize_noErrorCheck(v, mem, err, uid, F, szt) ==
    LET AS == AddressSpace(szt)
        payload == mem.payload
        end == mem.end
        p1 == (payload + sizeof_uint32_t) % AS
    IN  IF p1 > end
        THEN [ret |-> KG_ERROR_INVALID, error_ |-> err, user_id_ |-> uid, fields |-> F,
              released |-> {}, reads |-> {}]
        ELSE LET error_value == FromBytes(ReadBytes(mem, payload, sizeof_uint32_t, szt))
                 rd1 == Addresses(payload, sizeof_uint32_t, szt)
             IN  IF p1 = end
                 THEN [ret |-> KG_ERROR_INVALID, error_ |-> error_value, user_id_ |-> uid,
                       fields |-> F, released |-> {}, reads |-> rd1]
                 ELSE LET id == ReadWord(mem, p1, szt)
                          r == nonErrorDeserialize(v, mem, (p1 + sizeof_uint32_t) % AS,
                                                   end, F, szt)
                      IN  [ret |-> r.error, error_ |-> r.error, user_id_ |-> id,
                           fields |-> r.fields, released |-> r.released,
                           reads |-> rd1 \cup Addresses(p1, sizeof_uint32_t, szt)
                                         \cup r.reads]

\* Deserialize releasing the fields before it looks at the error code.
Deserialize_releaseFirst(v, mem, err, uid, F, szt) ==
    LET AS == AddressSpace(szt)
        payload == mem.payload
        end == mem.end
        p1 == (payload + sizeof_uint32_t) % AS
        dropped == [f \in DOMAIN F |-> Emptied(F[f])]
    IN  IF p1 > end
        THEN [ret |-> KG_ERROR_INVALID, error_ |-> err, user_id_ |-> uid,
              fields |-> dropped, released |-> Destructor(v, F), reads |-> {}]
        ELSE LET error_value == FromBytes(ReadBytes(mem, payload, sizeof_uint32_t, szt))
                 rd1 == Addresses(payload, sizeof_uint32_t, szt)
             IN  IF error_value # KG_ERROR_OK
                 THEN [ret |-> error_value, error_ |-> error_value, user_id_ |-> uid,
                       fields |-> dropped, released |-> Destructor(v, F), reads |-> rd1]
                 ELSE IF p1 = end
                 THEN [ret |-> KG_ERROR_INVALID, error_ |-> error_value, user_id_ |-> uid,
                       fields |-> dropped, released |-> Destructor(v, F), reads |-> rd1]
                 ELSE LET id == ReadWord(mem, p1, szt)
                          r == nonErrorDeserialize(v, mem, (p1 + sizeof_uint32_t) % AS,
                                                   end, F, szt)
                      IN  [ret |-> r.error, error_ |-> r.error, user_id_ |-> id,
                           fields |-> r.fields, released |-> r.released,
                           reads |-> rd1 \cup Addresses(p1, sizeof_uint32_t, szt)
                                         \cup r.reads]

Deserialize(v, mem, err, uid, F, szt) ==
    LET AS == AddressSpace(szt)
        payload == mem.payload
        end == mem.end
        p1 == (payload + sizeof_uint32_t) % AS
    IN  IF p1 > end
        THEN [ret |-> KG_ERROR_INVALID, error_ |-> err, user_id_ |-> uid, fields |-> F,
              released |-> {}, reads |-> {}]
        ELSE LET error_value == FromBytes(ReadBytes(mem, payload, sizeof_uint32_t, szt))
                 rd1 == Addresses(payload, sizeof_uint32_t, szt)
             IN  IF error_value # KG_ERROR_OK
                 THEN [ret |-> error_value, error_ |-> error_value, user_id_ |-> uid,
                       fields |-> F, released |-> {}, reads |-> rd1]
                 ELSE IF p1 = end
                 THEN [ret |-> KG_ERROR_INVALID, error_ |-> error_value, user_id_ |-> uid,
                       fields |-> F, released |-> {}, reads |-> rd1]
                 ELSE LET id == ReadWord(mem, p1, szt)
                          r == nonErrorDeserialize(v, mem, (p1 + sizeof_uint32_t) % AS,
                                                   end, F, szt)
                      IN  [ret |-> r.error, error_ |-> r.error, user_id_ |-> id,
                           fields |-> r.fields, released |-> r.released,
                           reads |-> rd1 \cup Addresses(p1, sizeof_uint32_t, szt)
                                         \cup r.reads]


\* ---- state ----------------------------------------------------------------
VARIABLES
    sizeof_size_t,              \* sizeof(size_t) of the build
    variant,                    \* class of the live message object, or NoVariant
    error_,                     \* KeyguardMessage::error_
    user_id_,                   \* KeyguardMessage::user_id_
    password_handle_,           \* VerifyRequest::password_handle_
    provided_password_,         \* VerifyRequest / EnrollRequest ::provided_password_
    verification_token_,        \* VerifyResponse::verification_token_
    enrolled_password_handle_,  \* EnrollResponse::enrolled_password_handle_
    serialized,                 \* the array returned by the latest Serialize()
    released,                   \* storages released by the latest call
    deserialized,               \* number of Deserialize calls on the live object
    last                        \* the latest call, its input and what it returned

vars ==
    <<sizeof_size_t, variant, error_, user_id_, password_handle_, provided_password_,
      verification_token_, enrolled_password_handle_, serialized, released,
      deserialized, last>>

\* The buffer fields of the live object.
Fields ==
    [password_handle_ |-> password_handle_, provided_password_ |-> provided_password_,
     verification_token_ |-> verification_token_,
     enrolled_password_handle_ |-> enrolled_password_handle_]

SetFields(F) ==
    /\ password_handle_' = F.password_handle_
    /\ provided_password_' = F.provided_password_
    /\ verification_token_' = F.verification_token_
    /\ enrolled_password_handle_' = F.enrolled_password_handle_

\* The object as its default constructor leaves it.
DefaultConstructed == error_ = KG_ERROR_OK /\ user_id_ = Uninit /\ Fields = NoFields

NoSerialized ==
    [size |-> 0, written |-> <<>>,
     of |-> [variant |-> NoVariant, error_ |-> KG_ERROR_OK, user_id_ |-> Uninit,
             fields |-> NoFields]]

\* What is kept of a call: its input's origin and length (as far as "more
\* than an error code"), whether the input
\* was the whole serialized array, the word it starts with, the value
\* returned, the offsets read relative to payload, whether one of them is
\* outside the input, whether the object was as default-constructed when
\* called, and, for the calls whose input is not told by its origin and
\* length, the input bytes.  sources are the caller's SizedBuffers a
\* constructor or setter was given, as the call leaves them.
Call(op, from, len, whole, first, ret, reads, outside, pristine, input) ==
    [op |-> op, from |-> from, len |-> len, whole |-> whole, first |-> first,
     ret |-> ret, reads |-> reads, outside |-> outside, pristine |-> pristine,
     input |-> input, sources |-> <<>>]

NoInput(op) == Call(op, "none", 0, FALSE, Uninit, KG_ERROR_OK, {}, FALSE, FALSE, <<>>)

\* field.buffer = std::move(source->buffer); field.length = source->length:
\* what the source was, and what it is afterwards.
MovedFrom(field, source) ==
    [field |-> field, given |-> source, left |-> SizedBuffer(NULL, source.length)]

\* A constructor or setter call that moved the sources in.
MoveIn(op, sources) == [NoInput(op) EXCEPT !.sources = sources]

Init ==
    /\ sizeof_size_t \in SizeofSizeT
    /\ variant = NoVariant
    /\ error_ = KG_ERROR_OK
    /\ user_id_ = Uninit
    /\ password_handle_ = ZeroedBuffer
    /\ provided_password_ = ZeroedBuffer
    /\ verification_token_ = ZeroedBuffer
    /\ enrolled_password_handle_ = ZeroedBuffer
    /\ serialized = NoSerialized
    /\ released = {}
    /\ deserialized = 0
    /\ last = NoInput("none")

\* ---- constructors -----------------------------------------------------------
\* While a serialized array exists, the messages built are of the class that
\* produced it: they are the ones it is handed to.
SameClass(v) == serialized = NoSerialized \/ v = serialized.of.variant

Construct(v, uid, F, sources) ==
    /\ variant = NoVariant
    /\ SameClass(v)
    /\ variant' = v
    /\ error_' = KG_ERROR_OK
    /\ user_id_' = uid
    /\ SetFields(F)
    /\ released' = {}
    /\ deserialized' = 0
    /\ last' = MoveIn("construct", sources)
    /\ UNCHANGED <<sizeof_size_t, serialized>>

VerifyRequest_VerifyRequest ==
    \E user_id \in UserIds, enrolled_password_handle \in SrcBuffers,
       provided_password_payload \in SrcBuffers :
        Construct("VerifyRequest", user_id,
                  [NoFields EXCEPT !.password_handle_ = enrolled_password_handle,
                                   !.provided_password_ = provided_password_payload],
                  <<MovedFrom("password_handle_", enrolled_password_handle),
                    MovedFrom("provided_password_", provided_password_payload)>>)

VerifyRequest_default == Construct("VerifyRequest", Uninit, NoFields, <<>>)

VerifyResponse_VerifyResponse ==
    \E user_id \in UserIds, verification_token \in SrcBuffers :
        Construct("VerifyResponse", user_id,
                  [NoFields EXCEPT !.verification_token_ = verification_token],
                  <<MovedFrom("verification_token_", verification_token)>>)

VerifyResponse_default == Construct("VerifyResponse", Uninit, NoFields, <<>>)

EnrollRequest_EnrollRequest ==
    \E user_id \in UserIds, provided_password \in SrcBuffers :
        Construct("EnrollRequest", user_id,
                  [NoFields EXCEPT !.provided_password_ = provided_password],
                  <<MovedFrom("provided_password_", provided_password)>>)

EnrollRequest_default == Construct("EnrollRequest", Uninit, NoFields, <<>>)

EnrollResponse_EnrollResponse ==
    \E user_id \in UserIds, enrolled_password_handle \in SrcBuffers :
        Construct("EnrollResponse", user_id,
                  [NoFields EXCEPT !.enrolled_password_handle_ = enrolled_password_handle],
                  <<MovedFrom("enrolled_password_handle_", enrolled_password_handle)>>)

EnrollResponse_default == Construct("EnrollResponse", Uninit, NoFields, <<>>)

\* ---- setters ----------------------------------------------------------------
\* The move assignment of the unique_ptr releases the storage it replaces.
SetVerificationToken ==
    /\ variant = "VerifyResponse"
    /\ \E verification_token \in SrcBuffers :
        /\ verification_token_' = verification_token
        /\ released' = ResetPlain("verification_token_", verification_token_)
        /\ last' = MoveIn("set", <<MovedFrom("verification_token_", verification_token)>>)
    /\ UNCHANGED <<sizeof_size_t, variant, error_, user_id_, password_handle_,
                   provided_password_, enrolled_password_handle_, serialized, deserialized>>

SetEnrolledPasswordHandle ==
    /\ variant = "EnrollResponse"
    /\ \E enrolled_password_handle \in SrcBuffers :
        /\ enrolled_password_handle_' = enrolled_password_handle
        /\ released' = ResetPlain("enrolled_password_handle_", enrolled_password_handle_)
        /\ last' = MoveIn("set", <<MovedFrom("enrolled_password_handle_",
                                             enrolled_password_handle)>>)
    /\ UNCHANGED <<sizeof_size_t, variant, error_, user_id_, password_handle_,
                   provided_password_, verification_token_, serialized, deserialized>>

SetError ==
    /\ variant # NoVariant
    /\ \E error \in {KG_ERROR_OK, KG_ERROR_INVALID} : error_' = error
    /\ released' = {}
    /\ last' = NoInput("SetError")
    /\ UNCHANGED <<sizeof_size_t, variant, user_id_, password_handle_, provided_password_,
                   verification_token_, enrolled_password_handle_, serialized, deserialized>>

\* ---- Serialize / Deserialize -------------------------------------------------
\* Serialize() on the live object.  An uninitialized user_id_ and storage that
\* is not the object's are read as some value.  The caller owns the array
\* returned; a behaviour follows one such array.
CallSerialize ==
    /\ variant # NoVariant
    /\ serialized = NoSerialized
    /\ \E junk \in Byte, indeterminate \in 0 .. MaxUserId :
        LET uid == IF user_id_ = Uninit THEN indeterminate ELSE user_id_
            out == Serialize(variant, error_, uid, Fields, sizeof_size_t, junk)
        IN  serialized' = [size |-> out.size, written |-> out.written,
                           of |-> [variant |-> variant, error_ |-> error_,
                                   user_id_ |-> user_id_, fields |-> Fields]]
    /\ released' = {}
    /\ last' = NoInput("Serialize")
    /\ UNCHANGED <<sizeof_size_t, variant, error_, user_id_, password_handle_,
                   provided_password_, verification_token_, enrolled_password_handle_,
                   deserialized>>

\* The contents of the array Serialize() returned: what was written inside it.
SerializedArray == SubSeq(serialized.written, 1, serialized.size)

\* The values the bytes outside [payload, end) may hold; they matter only to
\* a call that reads one of them.
OutsideValues(v, input, F, szt) ==
    LET mem == Memory(szt, input, 0)
        r == Deserialize(v, mem, KG_ERROR_OK, Uninit, F, szt)
    IN  IF InBounds(mem, r.reads) THEN {0} ELSE Byte

CallDeserialize(from, whole, input, keep) ==
    /\ variant # NoVariant
    /\ deserialized < MaxDeserialize
    /\ deserialized' = deserialized + 1
    /\ \E junk \in OutsideValues(variant, input, Fields, sizeof_size_t) :
        LET mem == Memory(sizeof_size_t, input, junk)
            r == Deserialize(variant, mem, error_, user_id_, Fields, sizeof_size_t)
        IN  /\ error_' = r.error_
            /\ user_id_' = r.user_id_
            /\ SetFields(r.fields)
            /\ released' = r.released
            /\ last' = Call("Deserialize", from,
                            IF Len(input) > sizeof_uint32_t THEN sizeof_uint32_t + 1
                            ELSE Len(input),
                            whole,
                            IF Len(input) >= sizeof_uint32_t
                            THEN FromBytes(SubSeq(input, 1, sizeof_uint32_t)) ELSE Uninit,
                            r.ret, {a - mem.payload : a \in r.reads},
                            ~InBounds(mem, r.reads), DefaultConstructed,
                            IF keep THEN input ELSE <<>>)
    /\ UNCHANGED <<sizeof_size_t, variant, serialized>>

\* Deserialize(serialized, serialized + k) for k up to GetSerializedSize().
DeserializeSerialized ==
    /\ serialized # NoSerialized
    /\ \E k \in 0 .. serialized.size :
        CallDeserialize("serialized", k = serialized.size, SubSeq(SerializedArray, 1, k),
                        FALSE)

\* parse_garbage: Deserialize(msgbuf + i, msgbuf + array_length) for every i.
DeserializeGarbage ==
    \E i \in 0 .. Len(msgbuf) :
        CallDeserialize("msgbuf", FALSE, SubSeq(msgbuf, i + 1, Len(msgbuf)), FALSE)

\* Deserialize over the serialized array with one byte of it replaced, given
\* to a message that has decoded nothing yet.
DeserializeSubstituted ==
    /\ serialized # NoSerialized
    /\ deserialized = 0
    /\ \E p \in 1 .. serialized.size, b \in Byte :
        CallDeserialize("substituted", FALSE, [SerializedArray EXCEPT ![p] = b], TRUE)

\* Deserialize over a suffix of msgbuf, given to a message that has decoded
\* nothing yet.
DeserializeBytes ==
    /\ deserialized = 0
    /\ \E i \in 0 .. Len(msgbuf) :
        CallDeserialize("bytes", FALSE, SubSeq(msgbuf, i + 1, Len(msgbuf)), TRUE)

\* ---- destructor -------------------------------------------------------------
Destroy ==
    /\ variant # NoVariant
    /\ released' = Destructor(variant, Fields)
    /\ variant' = NoVariant
    /\ error_' = KG_ERROR_OK
    /\ user_id_' = Uninit
    /\ SetFields(NoFields)
    /\ deserialized' = 0
    /\ last' = NoInput("destroy")
    /\ UNCHANGED <<sizeof_size_t, serialized>>

\* A message object of any class, built, changed and destroyed by its caller.
Constructors ==
    \/ VerifyRequest_VerifyRequest
    \/ VerifyRequest_default
    \/ VerifyResponse_VerifyResponse
    \/ VerifyResponse_default
    \/ EnrollRequest_EnrollRequest
    \/ EnrollRequest_default
    \/ EnrollResponse_EnrollResponse
    \/ EnrollResponse_default

Lifecycle ==
    \/ Constructors
    \/ SetVerificationToken
    \/ SetEnrolledPasswordHandle
    \/ SetError
    \/ Destroy

\* Messages fed with bytes that are not a message.
Next == Lifecycle \/ DeserializeGarbage

Spec == Init /\ [][Next]_vars

\* Messages serialized and fed with the serialized array or a prefix of it.
NextWire == Lifecycle \/ CallSerialize \/ DeserializeSerialized

SpecWire == Init /\ [][NextWire]_vars

\* Messages built, serialized, and fed with arrays in which a byte was
\* replaced or with bytes that are not a message.
NextBytes ==
    Constructors \/ Destroy \/ CallSerialize \/ DeserializeSubstituted \/ DeserializeBytes

SpecBytes == Init /\ [][NextBytes]_vars

\* ---- read_from_buffer on its own ---------------------------------------------
\* The lengths a length word is given: small ones, the ones around the
\* distance from the input to the top of the address space, and the largest.
WireLengths(szt) ==
    LET gap == AddressSpace(szt) - PayloadBase(szt)
    IN  (0 .. (MaxLen + 1))
            \cup {gap - szt - d : d \in 0 .. (MaxLen + 1)}
            \cup {AddressSpace(szt) - d : d \in 1 .. (MaxLen + 1)}

\* read_from_buffer(&cursor, end, &target) where [cursor, end) holds a length
\* word and n bytes after it, and target is a field as nonErrorDeserialize
\* leaves it before decoding: without storage, its length zero or stale.
CallReadFromBuffer ==
    /\ variant = NoVariant
    /\ \E length \in WireLengths(sizeof_size_t), n \in 0 .. (MaxLen + 1),
          stale \in 0 .. MaxLen, junk \in Byte :
        LET bytes == ToBytes(length, sizeof_size_t) \o [i \in 1 .. n |-> 1 + (i % (Radix - 1))]
            mem == Memory(sizeof_size_t, bytes, junk)
            target == SizedBuffer(NULL, stale)
            r == read_from_buffer(mem, mem.payload, mem.end, target, sizeof_size_t)
        IN  last' = [op |-> "read_from_buffer", cursor |-> mem.payload, end |-> mem.end,
                     length |-> length, target |-> target, error |-> r.error,
                     after |-> r.buffer, result |-> r.target,
                     reads |-> {a - mem.payload : a \in r.reads}]
    /\ UNCHANGED <<sizeof_size_t, variant, error_, user_id_, password_handle_,
                   provided_password_, verification_token_, enrolled_password_handle_,
                   serialized, released, deserialized>>

\* The codec of one field, given every length word.
NextCodec == CallReadFromBuffer

SpecCodec == Init /\ [][NextCodec]_vars

\* ---- properties -------------------------------------------------------------
IsDeserialize == last.op = "Deserialize"
IsSerialize == last.op = "Serialize"

\* The message Serialize() was called on, as it was then.
Sent == serialized.of

\* The names of the buffer fields of class v.
FieldNames(v) == {FieldsOf(v)[i] : i \in 1 .. Len(FieldsOf(v))}

\* Deserialize was just called over exactly the GetSerializedSize() bytes of
\* the array a constructor-built message with error OK serialized to.
DecodedWholeArray ==
    /\ IsDeserialize
    /\ last.from = "serialized"
    /\ last.whole
    /\ Sent.variant = variant
    /\ Sent.error_ = KG_ERROR_OK
    /\ Sent.user_id_ # Uninit

\* C1: a message built by its constructor with buffer fields of length >= 1,
\* serialized and then deserialized into a default-constructed message of the
\* same class over exactly GetSerializedSize() bytes, comes back with result
\* OK, the same user id and, field by field, the same length and bytes.
C1_RoundTrip ==
    (/\ DecodedWholeArray
     /\ last.pristine
     /\ \A f \in FieldNames(variant) : Sent.fields[f].length >= 1)
        => /\ last.ret = KG_ERROR_OK
           /\ error_ = KG_ERROR_OK
           /\ user_id_ = Sent.user_id_
           /\ Fields = Sent.fields

\* C2: a message with an empty buffer field (length 0, no storage) serializes
\* and deserializes with result OK, and the decoded field is empty as in a
\* default-constructed message.  Stated for the build whose size_t has four
\* bytes, where Serialize() stays inside its array.
C2_ZeroLengthRoundTrip ==
    (/\ DecodedWholeArray
     /\ sizeof_size_t = sizeof_uint32_t
     /\ \E f \in FieldNames(variant) : Sent.fields[f] = ZeroedBuffer)
        => /\ last.ret = KG_ERROR_OK
           /\ \A f \in FieldNames(variant) :
                Sent.fields[f] = ZeroedBuffer => Fields[f] = ZeroedBuffer

\* C3: Deserialize never reads a byte outside [payload, end), whatever the
\* input holds and however long it is.
C3_NoReadOutsideInput == IsDeserialize => ~last.outside

\* C4: of a serialized message with error OK and length N, every proper
\* prefix deserializes to a result that is not OK; OK is returned only for
\* the whole array.
C4_Truncation ==
    (/\ IsDeserialize
     /\ last.from = "serialized"
     /\ Sent.variant = variant
     /\ Sent.error_ = KG_ERROR_OK
     /\ ~last.whole)
        => last.ret # KG_ERROR_OK

\* C4 witness: a prefix that holds the error code, the user id and a length
\* word, but not the whole payload, was rejected.
C4_Witness ==
    /\ IsDeserialize
    /\ last.from = "serialized"
    /\ Sent.variant = variant
    /\ Sent.error_ = KG_ERROR_OK
    /\ ~last.whole
    /\ 2 * sizeof_uint32_t \in last.reads
    /\ last.ret = KG_ERROR_INVALID

\* C5: Deserialize returns, and leaves in error_, only KG_ERROR_OK or
\* KG_ERROR_INVALID.
C5_TwoValuedError ==
    IsDeserialize =>
        /\ last.ret \in {KG_ERROR_OK, KG_ERROR_INVALID}
        /\ error_ \in {KG_ERROR_OK, KG_ERROR_INVALID}

\* The size of a class's payload as the wire format defines it: for every
\* field a 4-byte length and the field's bytes.
RECURSIVE WirePayloadSize(_, _)
WirePayloadSize(names, F) ==
    IF names = <<>> THEN 0
    ELSE sizeof_uint32_t + F[Head(names)].length + WirePayloadSize(Tail(names), F)

\* C6: a message whose error is not OK has GetSerializedSize() 4 and
\* serializes to the error code alone, whatever fields it holds; a message
\* whose error is OK has GetSerializedSize() 8 plus its payload size and
\* serializes to the error code, the user id, then the payload.
C6_EnvelopeLayout ==
    IsSerialize =>
        IF error_ # KG_ERROR_OK
        THEN /\ GetSerializedSize(variant, error_, Fields) = sizeof_uint32_t
             /\ serialized.size = sizeof_uint32_t
             /\ serialized.written = ToBytes(error_, sizeof_uint32_t)
        ELSE /\ GetSerializedSize(variant, error_, Fields)
                    = 2 * sizeof_uint32_t + WirePayloadSize(FieldsOf(variant), Fields)
             /\ serialized.size = GetSerializedSize(variant, error_, Fields)
             /\ SubSeq(serialized.written, 1, sizeof_uint32_t)
                    = ToBytes(KG_ERROR_OK, sizeof_uint32_t)
             /\ user_id_ # Uninit =>
                    SubSeq(serialized.written, sizeof_uint32_t + 1, 2 * sizeof_uint32_t)
                        = ToBytes(user_id_, sizeof_uint32_t)
             /\ SubSeq(serialized.written, 2 * sizeof_uint32_t + 1,
                       Len(serialized.written))
                    \in {nonErrorSerialize(variant, Fields, sizeof_size_t, junk) :
                            junk \in Byte}

\* C6 witness: a message holding a payload and an error that is not OK was
\* serialized.
C6_Witness ==
    /\ IsSerialize
    /\ error_ # KG_ERROR_OK
    /\ \E f \in FieldNames(variant) : Fields[f].buffer # NULL

\* C7: Serialize writes exactly GetSerializedSize() bytes, 4 + length for
\* every field, and so none past the array it allocated.
C7_WritesExactlySize ==
    IsSerialize =>
        /\ Len(serialized.written) = GetSerializedSize(variant, error_, Fields)
        /\ Len(serialized.written) <= serialized.size

\* C8: when the first four bytes of the input encode KG_ERROR_INVALID,
\* Deserialize reports KG_ERROR_INVALID and reads nothing beyond them.
C8_ErrorShortCircuit ==
    (IsDeserialize /\ last.first = KG_ERROR_INVALID)
        => /\ last.ret = KG_ERROR_INVALID
           /\ error_ = KG_ERROR_INVALID
           /\ last.reads \subseteq 0 .. (sizeof_uint32_t - 1)

\* C8 witness: such an input with more bytes after the error code was given
\* to a message.
C8_Witness ==
    /\ IsDeserialize
    /\ last.first = KG_ERROR_INVALID
    /\ last.len > sizeof_uint32_t
    /\ last.ret = KG_ERROR_INVALID

\* C9: a storage of provided_password_ is all zero when it is released, by
\* the destructor or by a later Deserialize; the storages of password
\* handles and verification tokens are released as they are.
C9_SecretWipe ==
    \A r \in released :
        IF r.field = "provided_password_" THEN r.zeroed ELSE ~r.changed

\* C9 witness: Deserialize replaced a provided_password_ whose bytes were not
\* zero, together with a password handle.
C9_Witness ==
    /\ IsDeserialize
    /\ \E r \in released : r.field = "provided_password_" /\ r.size > 0 /\ r.changed
    /\ \E r \in released : r.field = "password_handle_" /\ ~r.zeroed

\* C10: every buffer field of the message has length 0 exactly when it has
\* no storage, and otherwise a length equal to the size of its storage.
C10_BufferInvariant ==
    \A f \in FieldNames(variant) :
        /\ Fields[f].length = 0 <=> Fields[f].buffer = NULL
        /\ Fields[f].buffer # NULL => Fields[f].length = Len(StorageOf(Fields[f].buffer))

IsReadFromBuffer == last.op = "read_from_buffer"

\* The address after the length word of the latest read_from_buffer call.
AfterLengthWord == last.cursor + sizeof_size_t

\* C11: in read_from_buffer, with addresses modulo the pointer width, a
\* decoded length that makes cursor + length exceed end, or wrap around
\* below the cursor, is rejected with INVALID; nothing is allocated or
\* copied, and the cursor is not advanced past end.
C11_LengthOverflowRejected ==
    (/\ IsReadFromBuffer
     /\ AfterLengthWord < last.end
     /\ \/ AfterLengthWord + last.length > last.end
        \/ (AfterLengthWord + last.length) % AddressSpace(sizeof_size_t) < AfterLengthWord)
        => /\ last.error = KG_ERROR_INVALID
           /\ last.result.buffer = last.target.buffer
           /\ last.reads \subseteq 0 .. (sizeof_size_t - 1)
           /\ last.after <= last.end

\* C11 witness: a length that wraps the address to a place before end was
\* rejected.
C11_Witness ==
    /\ IsReadFromBuffer
    /\ AfterLengthWord < last.end
    /\ AfterLengthWord + last.length >= AddressSpace(sizeof_size_t)
    /\ (AfterLengthWord + last.length) % AddressSpace(sizeof_size_t) <= last.end
    /\ last.error = KG_ERROR_INVALID

\* The field that starts at offset at of the serialized array, as the wire
\* holds it: its length word, its bytes, and the offset after them.
WireField(at) ==
    LET length == FromBytes(SubSeq(SerializedArray, at + 1, at + sizeof_size_t))
    IN  [length |-> length,
         bytes |-> SubSeq(SerializedArray, at + sizeof_size_t + 1,
                          at + sizeof_size_t + length),
         next |-> at + sizeof_size_t + length]

\* Deserialize was just given a prefix of a serialized VerifyRequest that is
\* long enough for the payload decoder to be called.
DecodedVerifyRequestPayload ==
    /\ IsDeserialize
    /\ last.from = "serialized"
    /\ variant = "VerifyRequest"
    /\ Sent.variant = variant
    /\ Sent.error_ = KG_ERROR_OK
    /\ last.len > sizeof_uint32_t

\* C12: VerifyRequest decodes password_handle first and provided_password
\* second, from where the first ended; when password_handle fails to decode,
\* provided_password stays without storage, and a failure of either field
\* makes Deserialize report INVALID.
C12_OrderedFailFast ==
    DecodedVerifyRequestPayload =>
        LET first == WireField(2 * sizeof_uint32_t)
            second == WireField(first.next)
        IN  /\ password_handle_.buffer = NULL => provided_password_.buffer = NULL
            /\ (password_handle_.buffer = NULL \/ provided_password_.buffer = NULL)
                   => (last.ret = KG_ERROR_INVALID /\ error_ = KG_ERROR_INVALID)
            /\ password_handle_.buffer # NULL
                   => password_handle_ = SizedBuffer(Owning(first.bytes), first.length)
            /\ provided_password_.buffer # NULL
                   => /\ provided_password_ = SizedBuffer(Owning(second.bytes), second.length)
                      /\ last.ret = KG_ERROR_OK

\* C12 witness: a VerifyRequest that held a password was given a prefix in
\* which password_handle does not decode.
C12_Witness ==
    /\ DecodedVerifyRequestPayload
    /\ \E r \in released : r.field = "provided_password_"
    /\ password_handle_.buffer = NULL
    /\ provided_password_.buffer = NULL
    /\ last.ret = KG_ERROR_INVALID

\* The fields of class names, read in order from offset at of input with
\* length words of the build's size: each decoded field has storage of its
\* length holding the bytes that follow its length word.
RECURSIVE FieldsHoldInput(_, _, _, _)
FieldsHoldInput(names, F, input, at) ==
    \/ names = <<>>
    \/ LET f == F[Head(names)]
           from == at + sizeof_size_t
       IN  /\ f.buffer # NULL
           /\ Len(StorageOf(f.buffer)) = f.length
           /\ from + f.length <= Len(input)
           /\ StorageOf(f.buffer) = SubSeq(input, from + 1, from + f.length)
           /\ FieldsHoldInput(Tail(names), F, input, from + f.length)

\* C13: whenever Deserialize returns OK, for any input bytes, every field has
\* storage of exactly its decoded length holding the corresponding input
\* bytes, and 8 plus the sum over the fields of 4 + length does not exceed
\* the number of bytes of the input.
C13_ConsistentOnSuccess ==
    (IsDeserialize /\ last.from \in {"substituted", "bytes"} /\ last.ret = KG_ERROR_OK)
        => /\ FieldsHoldInput(FieldsOf(variant), Fields, last.input, 2 * sizeof_uint32_t)
           /\ 2 * sizeof_uint32_t + WirePayloadSize(FieldsOf(variant), Fields)
                  <= Len(last.input)

\* C13 witness: an array in which a byte of a length word was replaced
\* decoded with result OK.
C13_Witness ==
    /\ IsDeserialize
    /\ last.from = "substituted"
    /\ last.input # SerializedArray
    /\ last.ret = KG_ERROR_OK
    /\ \E f \in FieldNames(variant) : Fields[f].length # Sent.fields[f].length

\* C14: after a constructor taking SizedBuffers, SetVerificationToken or
\* SetEnrolledPasswordHandle, each source SizedBuffer is empty (no storage,
\* length 0) and the message field holds the source's former storage and
\* length.
C14_MoveInEmptiesSources ==
    last.op \in {"construct", "set"} =>
        \A i \in 1 .. Len(last.sources) :
            /\ last.sources[i].left = ZeroedBuffer
            /\ Fields[last.sources[i].field] = last.sources[i].given

\* C15: after every Deserialize, on any message in any prior state and with
\* any input, GetError() equals the value Deserialize returned.
C15_StoredErrorIsReturned == IsDeserialize => error_ = last.ret

\* C16: when Serialize emits a message with error OK, the user id it writes
\* is a value a constructor taking a user id or a Deserialize that read it
\* from its input assigned to that object before.
C16_DefinedUserIdOnWire == (IsSerialize /\ error_ = KG_ERROR_OK) => user_id_ # Uninit

\* C17: a Deserialize whose input is shorter than 4 bytes, or starts with an
\* error code that is not OK, leaves the user id and every buffer field as
\* they were and releases nothing; only the stored error may change.
C17_ErrorDecodeFrame ==
    [][(last'.op = "Deserialize" /\ last'.first # KG_ERROR_OK)
           => /\ user_id_' = user_id_
              /\ Fields' = Fields
              /\ released' = {}]_vars

\* C17 witness: a message holding a provided_password decoded an error and
\* still holds the password.
C17_Witness ==
    /\ IsDeserialize
    /\ last.first \notin {KG_ERROR_OK, Uninit}
    /\ ~last.pristine
    /\ provided_password_.buffer # NULL
    /\ error_ # KG_ERROR_OK
    /\ released = {}

TypeOK == variant \in Variants \cup {NoVariant}

====
